---- MODULE Spec2Model ----
(***************************************************************************)
(* Model of the IOMB-Data conversion scripts.  Each script is top-level    *)
(* code that runs once from its first statement to to_netcdf; one action   *)
(* below is one statement (or one block of statements) of a script.        *)
(*                                                                         *)
(*   GLODAP2022/convert.py : read_csv, depth filter, groupby/pd.cut/mean,  *)
(*                           interval midpoints, to_xarray, bounds, write  *)
(*   Boyer/convert.py      : open, time_bnds, time = mean of bounds, write *)
(*   MODIS-Aqua/convert.py : concat on the month axis, time_bnds,          *)
(*                           depth_bnds, write                             *)
(*                                                                         *)
(* Numbers.  The axis values used here (edges, midpoints, coordinates) are *)
(* integers that float64 represents exactly.  A measured value is a pair   *)
(* <<h, l>> standing for the float64 number h * 2^60 + l with l small, so  *)
(* that the rounding of float64 additions can be computed (see Fl).        *)
(***************************************************************************)
EXTENDS Integers, Sequences, FiniteSets, TLC

\* Largest number of rows of the source table.
MaxObs == 3

\* The missing value of a column or of an array cell, and the value of a
\* variable that is not assigned yet.
NaN == <<>>
None == <<>>

\* GLODAP2022/convert.py:18-22
GRID_RES == 2
DEPTH_MAX == 1000
LevNum == 21
BaseYear == 2000

\* int(round(a / b)) for the quotients that occur (b divides a)
RoundDiv(a, b) == (2 * a + b) \div (2 * b)

\* np.linspace(start, stop, num): num points, both ends included
linspace(start, stop, num) ==
  [i \in 1..num |-> start + ((i - 1) * (stop - start)) \div (num - 1)]

lev == linspace(0, DEPTH_MAX, LevNum)
lat == linspace(-90, 90, RoundDiv(180, GRID_RES) + 1)
lon == linspace(-180, 180, RoundDiv(360, GRID_RES) + 1)

\* The measured quantities carried through the aggregation.  The script
\* carries nine columns, all reduced by the same mean; two are kept here.
Quantities == {"temperature", "salinity"}

\* ds.rename of the data variables (GLODAP2022/convert.py:92-105)
RenameVar(q) == IF q = "temperature" THEN "thetao" ELSE "so"

-----------------------------------------------------------------------------
(* float64 arithmetic on the values <<h, l>> = h * 2^60 + l, |l| < 64.     *)
(* A float64 in [2^59, 2^61) has a spacing of at least 128, so a sum with  *)
(* h # 0 rounds to h * 2^60; a sum with h = 0 is a small integer, exact.   *)

Fl(x) == IF x[1] # 0 THEN <<x[1], 0>> ELSE x

FAdd(a, b) == Fl(<<a[1] + b[1], a[2] + b[2]>>)
FSub(a, b) == Fl(<<a[1] - b[1], a[2] - b[2]>>)

Abs(n) == IF n < 0 THEN -n ELSE n

RECURSIVE Gcd(_, _)
Gcd(a, b) == IF b = 0 THEN Abs(a) ELSE Gcd(b, a % b)

\* sumx / count: the quotient (h * 2^60 + l) / n as a fraction in lowest
\* terms <<h, l, n>>; equal fractions are equal float64 quotients.
FDiv(s, n) ==
  LET g == Gcd(Gcd(Abs(s[1]), Abs(s[2])), n)
  IN  <<s[1] \div g, s[2] \div g, n \div g>>

-----------------------------------------------------------------------------
(* cftime.DatetimeNoLeap and the numeric time of a date                    *)

DaysBefore == <<0, 31, 59, 90, 120, 151, 181, 212, 243, 273, 304, 334>>

DatetimeNoLeap(y, m, d) == [year |-> y, month |-> m, day |-> d, hour |-> 0]

\* hours since 2000-01-01 00:00 in the 365-day calendar
DateNum(dt) ==
  (((dt.year - BaseYear) * 365 + DaysBefore[dt.month] + (dt.day - 1)) * 24)
    + dt.hour

NumDate(h) ==
  LET doy == (h % 8760) \div 24
      m   == CHOOSE k \in 1..12 :
               /\ DaysBefore[k] <= doy
               /\ (k = 12 \/ doy < DaysBefore[k + 1])
  IN  [year |-> BaseYear + (h \div 8760), month |-> m,
       day |-> doy - DaysBefore[m] + 1, hour |-> h % 24]

Bool(b) == IF b THEN 1 ELSE 0

\* variant: December's upper bound stays in the base year
TimeBndsNoWrap(t) ==
  <<DatetimeNoLeap(BaseYear, t, 1),
    DatetimeNoLeap(BaseYear, IF t = 12 THEN 1 ELSE t + 1, 1)>>
\* one row of time_bnds for month t
TimeBnds(t) ==
  <<DatetimeNoLeap(BaseYear, t, 1),
    DatetimeNoLeap(BaseYear + Bool(t = 12), IF t = 12 THEN 1 ELSE t + 1, 1)>>

\* ds["time_bnds"].mean(dim="nb")
BndsMean(b) == NumDate((DateNum(b[1]) + DateNum(b[2])) \div 2)

-----------------------------------------------------------------------------
(* Sequence helpers                                                        *)

Range(s) == {s[i] : i \in 1..Len(s)}

\* the increasing sequence of the members of a finite set of integers
RECURSIVE SortedSeq(_)
SortedSeq(S) ==
  IF S = {} THEN <<>>
  ELSE LET mn == CHOOSE x \in S : \A y \in S : x <= y
       IN  <<mn>> \o SortedSeq(S \ {mn})

IndexOf(s, x) == CHOOSE i \in 1..Len(s) : s[i] = x

-----------------------------------------------------------------------------
(* GLODAP2022/convert.py: the table operations as functions of the source  *)
(* table c (a sequence of rows) and of the frame built so far.  A frame    *)
(* row is named by its index label k, the position of the row in c.        *)

\* pd.read_csv: every row of the file, labelled 1..n
ReadCsv(c) == [k \in 1..Len(c) |-> k]

\* df[df["depth"] < DEPTH_MAX]
DepthFilter(c, df) ==
  LET Keep(k) == c[k].depth < DEPTH_MAX
  IN  SelectSeq(df, Keep)

\* bins.searchsorted(x, side="left"): the number of edges before the
\* insertion point, which is before equal edges
SearchSorted(bins, v) == Cardinality({j \in 1..Len(bins) : bins[j] < v})

\* variant: a value beyond the edges is put in the nearest bin
CutClamp(v, bins) ==
  LET ids == SearchSorted(bins, v)
      i   == IF ids = 0 THEN 1 ELSE IF ids = Len(bins) THEN ids - 1 ELSE ids
  IN  <<bins[i], bins[i + 1]>>
\* pd.cut(x, bins) with the default right=True, include_lowest=False:
\* the interval <<left, right>> of the value, or NaN when the insertion
\* point is before the first edge or after the last one
Cut(v, bins) ==
  LET ids == SearchSorted(bins, v)
  IN  IF ids = 0 \/ ids = Len(bins) THEN NaN
      ELSE <<bins[ids], bins[ids + 1]>>

\* the four grouping vectors, one key per row of the frame
GroupKeys(c, df) ==
  [k \in Range(df) |->
     <<c[k].month, Cut(c[k].depth, lev), Cut(c[k].latitude, lat),
       Cut(c[k].longitude, lon)>>]

\* a row whose key holds NaN in a cut column belongs to no group
ValidKey(g) == \A a \in 2..4 : g[a] # NaN

\* the categories of a pd.cut grouper: one interval per pair of edges
Categories(bins) == [i \in 1..(Len(bins) - 1) |-> <<bins[i], bins[i + 1]>>]

\* variant: observed=True, only the categories that a row carries
CatLevelObserved(bins, seen) ==
  LET Used(iv) == iv \in seen
  IN  SelectSeq(Categories(bins), Used)
\* level of a categorical grouper in the result index (observed=False):
\* every category, whether or not a row carries it
CatLevel(bins, seen) == Categories(bins)

\* the distinct members of a sequence in the order of their first occurrence
FirstOccurrences(s) ==
  LET First(i) == \A j \in 1..(i - 1) : s[j] # s[i]
      idx == SelectSeq([i \in 1..Len(s) |-> i], First)
  IN  [i \in 1..Len(idx) |-> s[idx[i]]]

\* variant: sort=False, the months in the order of their first row
MonthLevelAppearance(c, df) ==
  FirstOccurrences([i \in 1..Len(df) |-> c[df[i]].month])
\* level of the month grouper: the sorted distinct months of the frame
MonthLevel(c, df) == SortedSeq({c[df[i]].month : i \in 1..Len(df)})

\* group mean of quantity q over the rows of group g, in row order, with
\* the compensated summation of the grouped mean; missing values skipped
RECURSIVE GroupMeanFrom(_, _, _, _, _, _, _, _, _)
GroupMeanFrom(c, df, ks, g, q, i, nobs, sumx, comp) ==
  IF i > Len(df)
    THEN IF nobs = 0 THEN NaN ELSE FDiv(sumx, nobs)
    ELSE LET k   == df[i]
             val == c[k][q]
         IN  IF ks[k] # g \/ val = NaN
               THEN GroupMeanFrom(c, df, ks, g, q, i + 1, nobs, sumx, comp)
               ELSE LET y == FSub(val, comp)
                        t == FAdd(sumx, y)
                    IN  GroupMeanFrom(c, df, ks, g, q, i + 1, nobs + 1, t,
                                      FSub(FSub(t, sumx), y))

\* variant: the mean taken over the distinct values only
GroupMeanDistinct(c, df, ks, g, q) ==
  LET Fresh(i) == \A j \in 1..(i - 1) :
                    ~(ks[df[j]] = g /\ c[df[j]][q] = c[df[i]][q])
      idx  == SelectSeq([i \in 1..Len(df) |-> i], Fresh)
      df2  == [i \in 1..Len(idx) |-> df[idx[i]]]
  IN  GroupMeanFrom(c, df2, ks, g, q, 1, 0, <<0, 0>>, <<0, 0>>)
\* variant: 0 in place of a missing result
GroupMeanZeroFill(c, df, ks, g, q) ==
  LET m == GroupMeanFrom(c, df, ks, g, q, 1, 0, <<0, 0>>, <<0, 0>>)
  IN  IF m = NaN THEN <<0, 0, 1>> ELSE m
\* .mean(numeric_only=True) of one group and one column
GroupMean(c, df, ks, g, q) ==
  GroupMeanFrom(c, df, ks, g, q, 1, 0, <<0, 0>>, <<0, 0>>)

\* df.groupby([...]).mean(numeric_only=True).drop(...).reset_index() on
\* a frame whose depth, latitude and longitude columns are numeric and
\* whose numeric quantity columns are Q: levels of the result index and the
\* mean of every group that has a row.  The frame has one row per member
\* of the product of the levels; a row whose group has no source row holds
\* NaN in every column.  A column that is not numeric has no mean.
GroupByMeanOf(c, df, Q) ==
  LET ks    == GroupKeys(c, df)
      cells == {ks[k] : k \in {j \in Range(df) : ValidKey(ks[j])}}
      seen(a) == {g[a] : g \in cells}
  IN  [levels |-> <<MonthLevel(c, df), CatLevel(lev, seen(2)),
                    CatLevel(lat, seen(3)), CatLevel(lon, seen(4))>>,
       data   |-> [g \in cells |->
                     [q \in Q |-> GroupMean(c, df, ks, g, q)]]]

\* the grouped frame of a file whose data lines are the rows c, each line
\* whole: every column is numeric
GroupByMean(c, df) == GroupByMeanOf(c, df, Quantities)

\* variant: the left edge
MidLeft(iv) == iv[1]
\* Interval.mid
Mid(iv) == (iv[1] + iv[2]) \div 2

\* df[col] = df[col].apply(lambda x: x.mid) for the three cut columns
MidPoints(f) ==
  LET MidKey(g) == <<g[1], Mid(g[2]), Mid(g[3]), Mid(g[4])>>
      MidLevel(l) == [i \in 1..Len(l) |-> Mid(l[i])]
  IN  [levels |-> <<f.levels[1], MidLevel(f.levels[2]),
                    MidLevel(f.levels[3]), MidLevel(f.levels[4])>>,
       data   |-> [m \in {MidKey(g) : g \in DOMAIN f.data} |->
                     f.data[CHOOSE g \in DOMAIN f.data : MidKey(g) = m]]]

\* df.set_index([...]).to_xarray(): one dimension per index level holding
\* the labels that occur in the rows of the frame, and one array per
\* column of the frame, addressed by position, NaN where the frame has no
\* value (Value).  A frame without rows leaves every dimension empty.
SetIndexToXarray(f) ==
  LET hasRows == \A a \in 1..4 : Len(f.levels[a]) > 0
      dim(a)  == IF hasRows THEN f.levels[a] ELSE <<>>
      Pos(m)  == <<IndexOf(dim(1), m[1]), IndexOf(dim(2), m[2]),
                   IndexOf(dim(3), m[3]), IndexOf(dim(4), m[4])>>
  IN  [month |-> dim(1), depth |-> dim(2), latitude |-> dim(3),
       longitude |-> dim(4),
       data |-> [p \in {Pos(m) : m \in DOMAIN f.data} |->
                   f.data[CHOOSE m \in DOMAIN f.data : Pos(m) = p]]]

\* ds.rename raises on a name that the dataset does not hold: a quantity
\* column that was not numeric is not in the grouped frame
CanRename(numeric) == Quantities \subseteq numeric

\* ds.rename of the dimensions and of the data variables
Rename(d) ==
  [time |-> d.month, depth |-> d.depth, lat |-> d.latitude,
   lon |-> d.longitude,
   data |-> [p \in DOMAIN d.data |->
               [v \in {RenameVar(q) : q \in Quantities} |->
                  d.data[p][CHOOSE q \in Quantities : RenameVar(q) = v]]],
   time_bnds |-> None, depth_bnds |-> None,
   lat_bnds |-> None, lon_bnds |-> None]

\* lines 90-105 on a frame that carries every quantity
ToXarray(f) == Rename(SetIndexToXarray(f))

\* the value of variable v at position p of the dense array
Value(d, p, v) == IF p \in DOMAIN d.data THEN d.data[p][v] ELSE NaN

\* ds["time_bnds"] = ... for t in ds["time"]
GlodapTimeBnds(d) ==
  [d EXCEPT !.time_bnds = [i \in 1..Len(d.time) |-> TimeBnds(d.time[i])]]

\* ds["time"] = [cftime.DatetimeNoLeap(2000, t, 15) for t in ds["time"]]
GlodapTime(d) ==
  [d EXCEPT !.time = [i \in 1..Len(d.time) |->
                        DatetimeNoLeap(BaseYear, d.time[i], 15)]]

\* np.asarray([edges[:-1], edges[1:]]).T
\* variant: every bin starts at the first edge
BndsOfCumulative(edges) ==
  [i \in 1..(Len(edges) - 1) |-> <<edges[1], edges[i + 1]>>]

BndsOf(edges) == [i \in 1..(Len(edges) - 1) |-> <<edges[i], edges[i + 1]>>]

\* assigning a bounds array along an existing dimension needs equal lengths
SpaceBndsFit(d) ==
  /\ Len(d.depth) = Len(lev) - 1
  /\ Len(d.lat) = Len(lat) - 1
  /\ Len(d.lon) = Len(lon) - 1

GlodapSpaceBnds(d) ==
  [d EXCEPT !.depth_bnds = BndsOf(lev), !.lat_bnds = BndsOf(lat),
            !.lon_bnds = BndsOf(lon)]

\* the dataset before the script assigns it
EmptyDs ==
  [time |-> <<>>, depth |-> <<>>, lat |-> <<>>, lon |-> <<>>, data |-> <<>>,
   time_bnds |-> None, depth_bnds |-> None, lat_bnds |-> None,
   lon_bnds |-> None]

\* the script from read_csv to the dataset handed to to_netcdf, on a file
\* whose data lines are the rows c, each line whole.  Of a file without a
\* data line read_csv makes columns of dtype object, which
\* mean(numeric_only=True) leaves out, so that .drop(columns=[...]) of the
\* groupby statement raises and no dataset is built; the assignment of the
\* space bounds raises when a dimension does not fit.
GlodapResult(c) ==
  IF Len(c) = 0 THEN [status |-> "raised", ds |-> EmptyDs]
  ELSE
  LET d == GlodapTime(GlodapTimeBnds(ToXarray(MidPoints(
             GroupByMean(c, DepthFilter(c, ReadCsv(c)))))))
  IN  IF SpaceBndsFit(d)
        THEN [status |-> "done", ds |-> GlodapSpaceBnds(d)]
        ELSE [status |-> "error", ds |-> d]

-----------------------------------------------------------------------------
(* The source tables.  A row is one line of the merged master file.        *)

Obs(m, d, la, lo, t, s) ==
  [month |-> m, depth |-> d, latitude |-> la, longitude |-> lo,
   temperature |-> t, salinity |-> s]

V(n) == <<0, n>>
Big == <<1, 0>>
NegBig == <<-1, 0>>

\* rows inside a cell, on interior edges, on the ends of each axis and
\* outside the domain; values small enough for exact float64 sums
PoolRows ==
  << Obs(1, 25, 1, 1, V(10), NaN),
     Obs(1, 25, 1, 1, V(20), V(5)),
     Obs(1, 50, 2, 2, V(40), NaN),
     Obs(1, 25, 1, 1, NaN, NaN),
     Obs(12, 900, 90, 180, V(20), NaN),
     Obs(12, 1000, 90, 180, V(30), NaN),
     Obs(1, 0, -90, -180, V(50), NaN),
     Obs(6, 1010, 1, -185, V(70), NaN),
     Obs(7, -5, 95, 1, V(80), NaN) >>

Pool == Range(PoolRows)

\* rows of one cell whose values differ by sixty binary orders of magnitude
FloatPool ==
  { Obs(1, 25, 1, 1, V(1), V(1)),
    Obs(1, 25, 1, 1, Big, V(2)),
    Obs(1, 25, 1, 1, NegBig, NaN),
    Obs(12, 900, 95, 1, V(2), NaN) }

Tables(P) == UNION {[1..n -> P] : n \in 0..MaxObs}

\* the tables over Pool, one for each selection of rows with repetition, its
\* rows in the order of PoolRows; FloatPool is taken in every order
PoolTables ==
  {t \in Tables(Pool) :
     \A i \in 1..(Len(t) - 1) :
       IndexOf(PoolRows, t[i]) <= IndexOf(PoolRows, t[i + 1])}

Scripts == {"GLODAP", "Boyer", "MODIS", "Gruber", "OCIM", "SeaWIFS", "WOA"}

\* MODIS-Aqua/convert.py:46-58: the first and last date in each file name
ModisSources ==
  << [start |-> 20030101, end |-> 20230131],
     [start |-> 20030201, end |-> 20230228],
     [start |-> 20030301, end |-> 20230331],
     [start |-> 20030401, end |-> 20220430],
     [start |-> 20030501, end |-> 20220531],
     [start |-> 20030601, end |-> 20210630],
     [start |-> 20020801, end |-> 20220831],
     [start |-> 20020901, end |-> 20220930],
     [start |-> 20021001, end |-> 20221031],
     [start |-> 20021101, end |-> 20221130],
     [start |-> 20021201, end |-> 20221231] >>

\* the number of remote sources a script fetches
NFiles(s) ==
  CASE s = "MODIS" -> Len(ModisSources)
    [] s = "SeaWIFS" -> 11
    [] s = "WOA" -> 12
    [] OTHER -> 1

\* OCIM/convert.py:46-56: the archive, the compressed file in it and
\* the extracted source
OcimZip == 1
OcimGz == 2
OcimNc == 3

\* the local files a script looks at
LocalFiles(s) == IF s = "OCIM" THEN {OcimZip, OcimGz, OcimNc} ELSE 1..NFiles(s)

\* variant: the helper never finds its destination
IsFileNever(fs, f) == FALSE

\* os.path.isfile: a file that holds part of the content is a file
IsFile(fs, f) == fs[f] # "absent"

Partial(fs) == {f \in DOMAIN fs : fs[f] = "partial"}

\* what a request can end in: the whole content is received, the request
\* raises before the destination is opened, the stream raises after the
\* destination was opened, or the stream ends early without raising (the
\* content length is not enforced by every build of the HTTP library)
FetchOutcomes == {"ok", "unreachable", "broken", "truncated"}

Raises(o) == o \in {"unreachable", "broken"}

\* the destination file after the fetch: the streaming helpers open it
\* before the content arrives, download_files of WOA2018 after
Fetched(s, o) ==
  CASE o = "ok" -> "complete"
    [] o = "unreachable" -> "absent"
    [] o = "broken" -> IF s = "WOA" THEN "absent" ELSE "partial"
    [] o = "truncated" -> "partial"

-----------------------------------------------------------------------------
(* GLODAP: the text of the source file.  A line holds, in this order and   *)
(* among fields that the model does not carry, the month, the latitude,    *)
(* the longitude, the depth, the temperature and the salinity of a row.    *)
(* A number is written in decimal digits, a negative one after a sign, a   *)
(* missing value as NaValue; the fields that the model does not carry are  *)
(* written without a sign.  pd.read_csv reads a line that ends early with  *)
(* NaN in the fields it lacks, and a column that holds a text which is not *)
(* a number (a sign alone) as a column of dtype object.                    *)
(* The local file is described by the rows that hold a depth (csv) and by  *)
(* the state of its text (cut):                                            *)
(*   "none"     every column the script uses is numeric                    *)
(*   "empty"    the file holds no byte                                     *)
(*   "header"   the header ends before the last column the script selects *)
(*   "nodata"   the header is followed by no data line                     *)
(*   "month"    the last line ends before its month field                  *)
(*   "depth", "key", "temperature", "salinity"                             *)
(*              the last line ends after the sign of its depth, of its     *)
(*              latitude or longitude, of its temperature, of its salinity *)

\* GLODAP2022/convert.py:47, na_values
NaValue == -9999

\* the numbers spelled by the proper prefixes of the digits of n that hold
\* a digit
RECURSIVE ShortInt(_)
ShortInt(n) ==
  IF n < 0 THEN {-m : m \in ShortInt(-n)}
  ELSE IF n < 10 THEN {}
  ELSE {n \div 10} \cup ShortInt(n \div 10)

\* a value of the wide range (h # 0) is not written in a file that is
\* fetched: InitFloat finds the file complete
InDigits(v) == v = NaN \/ v[1] = 0

\* the integer that the text of a value spells
TextOf(v) == IF v = NaN THEN NaValue ELSE v[2]

\* the values read from a value field that ends early after a digit; a
\* prefix of NaValue is a number, not a missing value
ShortVal(v) ==
  IF InDigits(v) THEN {<<0, m>> : m \in ShortInt(TextOf(v))} ELSE {}

\* the text of the field starts with a sign
SignedVal(v) == InDigits(v) /\ TextOf(v) < 0

\* the rows read from a last line of row x that ends after the first digit
\* of its depth field: inside the depth, after it, inside the temperature,
\* after it, inside the salinity
CutRows(x) ==
  {[x EXCEPT !.depth = d, !.temperature = NaN, !.salinity = NaN] :
     d \in ShortInt(x.depth)}
    \cup {[x EXCEPT !.temperature = NaN, !.salinity = NaN]}
    \cup {[x EXCEPT !.temperature = v, !.salinity = NaN] :
             v \in ShortVal(x.temperature)}
    \cup {[x EXCEPT !.salinity = NaN]}
    \cup {[x EXCEPT !.salinity = v] : v \in ShortVal(x.salinity)}

\* the states of the text in which the last line of row x ends after a
\* sign; a line that ends before its depth field holds no depth, one that
\* ends after the sign of a quantity holds the row without that quantity
SignCuts(x) ==
  (IF x.latitude < 0 \/ x.longitude < 0
     THEN {[kind |-> "key", last |-> <<>>]} ELSE {})
    \cup (IF x.depth < 0 THEN {[kind |-> "depth", last |-> <<>>]} ELSE {})
    \cup (IF SignedVal(x.temperature)
             THEN {[kind |-> "temperature",
                    last |-> <<[x EXCEPT !.temperature = NaN,
                                         !.salinity = NaN]>>]}
             ELSE {})
    \cup (IF SignedVal(x.salinity)
             THEN {[kind |-> "salinity",
                    last |-> <<[x EXCEPT !.salinity = NaN]>>]}
             ELSE {})

\* the file that holds the header and the rows c, each line whole
WholeFile(c) ==
  [kind |-> IF Len(c) = 0 THEN "nodata" ELSE "none", rows |-> c]

\* GLODAP, the content of a source file of rows r that lost its end: no
\* byte; a header that ends before the last column the script selects; the
\* header and the first k lines, the last of them whole in the fields the
\* model carries; or these followed by a part of line k + 1, which ends
\* before the month field, between the month field and the first digit of
\* the depth field, after a sign, or later (CutRows)
CutFiles(r) ==
  {[kind |-> "empty", rows |-> <<>>], [kind |-> "header", rows |-> <<>>]}
    \cup {WholeFile(SubSeq(r, 1, k)) : k \in 0..Len(r)}
    \cup UNION {
           LET head == SubSeq(r, 1, k)
           IN  {[kind |-> "month", rows |-> head],
                [kind |-> "none", rows |-> head]}
                 \cup {[kind |-> c.kind, rows |-> head \o c.last] :
                         c \in SignCuts(r[k + 1])}
                 \cup {[kind |-> "none", rows |-> Append(head, x)] :
                         x \in CutRows(r[k + 1])} :
           k \in 0..(Len(r) - 1)}

\* what the destination of GLODAP holds after the fetch of content r
Received(s, r, o) ==
  IF s # "GLODAP" THEN {[kind |-> "none", rows |-> <<>>]}
  ELSE CASE o = "ok" -> {WholeFile(r)}
         [] o = "unreachable" -> {[kind |-> "none", rows |-> <<>>]}
         [] OTHER -> CutFiles(r)

\* the quantity columns that read_csv makes numeric
Numeric(k) == Quantities \ {k}

\* the remote content of the source list of a script
Remote(s) == IF s = "GLODAP" THEN PoolTables ELSE {<<>>}

\* the statement after the download block
AfterDownload(s) ==
  CASE s = "GLODAP" -> "read_csv"
    [] s = "OCIM" -> "unzip"
    [] s = "SeaWIFS" -> "exit"
    [] OTHER -> "open"

-----------------------------------------------------------------------------
VARIABLES
  script,   \* the script that is run
  pc,       \* the statement the script is at
  csv,      \* GLODAP: the rows with a depth that the local file holds
  cut,      \* GLODAP: the state of the text of the local file
  df,       \* GLODAP: the index labels of the rows of the frame
  keys,     \* GLODAP: the grouping vectors of the groupby
  frame,    \* GLODAP: the grouped frame
  ds,       \* the xarray dataset
  out,      \* the dataset written by to_netcdf
  files,    \* the local files: "absent", "partial" or "complete"
  idx,      \* the position of the download loop in the source list
  failed,   \* a fetch of this run did not receive the complete content
  hist,     \* OCIM: the files at the start of the run, the commands run
  dic       \* OCIM: the dic field of the source file

env == <<cut, files, idx, failed, hist, dic>>

vars == <<script, pc, csv, cut, df, keys, frame, ds, out, files, idx,
          failed, hist, dic>>

\* OCIM/convert.py:85-92: the years of dic that the inventory change uses
Years == {1994, 2007}

\* the depth coordinate (cell centres) and, for each depth, the largest
\* ratio of volume to area (OCIM/convert.py:79-81) of the source file
OcimDepth == <<5, 2500, 3500>>
thick == <<10, 20, 30>>

\* dic [umol kg-1] of one (lat, lon) column: for each year and depth a small
\* value or missing; the layer below 3000 holds a value in both years
DicInputs ==
  {d \in [Years -> [1..Len(OcimDepth) -> {NaN, V(1), V(2)}]] :
     d[1994][3] = V(1) /\ d[2007][3] = V(2)}

\* cant.sel(time=2007) - cant.sel(time=1994)
DicChange(d) ==
  [l \in 1..Len(OcimDepth) |->
     IF d[2007][l] = NaN \/ d[1994][l] = NaN THEN NaN
     ELSE FSub(d[2007][l], d[1994][l])]

\* cant.sel(depth=slice(0, 3000)): the depths kept, both ends included
SelDepth == {l \in 1..Len(OcimDepth) : 0 <= OcimDepth[l] /\ OcimDepth[l] <= 3000}

\* (cant * 1025.0 * 1e-6 * thick).sum(dim="depth") in units of 1e-6 mol m-2:
\* missing layers are left out, a sum of no layer is 0
RECURSIVE SumDepth(_, _)
SumDepth(c, L) ==
  IF L = {} THEN 0
  ELSE LET l == CHOOSE x \in L : TRUE
       IN  (IF c[l] = NaN THEN 0 ELSE c[l][2] * 1025 * thick[l])
             + SumDepth(c, L \ {l})

\* cant < 1e-14 [mol m-2] for a sum s that is a whole number of 1e-6 mol m-2:
\* 1e-14 mol m-2 is 1e-8 of the unit, so the sums below it are those below 1
BelowThreshold(s) == s < 1

\* OCIM/convert.py:147-152
ColumnInventoryChange(d) ==
  LET s == SumDepth(DicChange(d), SelDepth)
  IN  IF BelowThreshold(s) THEN NaN ELSE V(s)

\* variant: the gunzip step is run whatever exists
NeedsGunzipAlways(fs) == TRUE

\* OCIM/convert.py:55
NeedsGunzip(fs) == ~IsFile(fs, OcimNc)

\* OCIM/convert.py:51-53
NeedsUnzip(fs) == ~(IsFile(fs, OcimGz) \/ IsFile(fs, OcimNc))

\* the files a run can find: every combination of the three OCIM files;
\* of a source list, the files an earlier run has fetched
InitFiles(s) ==
  IF s = "OCIM"
    THEN [LocalFiles(s) -> {"absent", "complete"}]
    ELSE {[i \in 1..NFiles(s) |-> IF i <= k THEN "complete" ELSE "absent"] :
            k \in 0..NFiles(s)}

StartHist(s, fs) == [had |-> IF s = "OCIM" THEN fs ELSE <<>>, cmds |-> <<>>]

\* a local file found at the start holds the whole of a remote content,
\* one of the tables T
InitWith(T, F) ==
  /\ script \in Scripts
  /\ pc = "download"
  /\ files \in (IF script = "GLODAP" THEN F ELSE InitFiles(script))
  /\ \E c \in (IF script = "GLODAP" /\ files[1] = "complete"
                 THEN {WholeFile(t) : t \in T}
                 ELSE {[kind |-> "none", rows |-> <<>>]}) :
       csv = c.rows /\ cut = c.kind
  /\ idx = 1
  /\ failed = FALSE
  /\ hist = StartHist(script, files)
  /\ dic \in (IF script = "OCIM" THEN DicInputs ELSE {<<>>})
  /\ df = <<>>
  /\ keys = <<>>
  /\ frame = None
  /\ ds = EmptyDs
  /\ out = None

Init == InitWith(PoolTables, InitFiles("GLODAP"))

\* the tables of the wide range are read from a file that an earlier run
\* has fetched
InitFloat == InitWith(Tables(FloatPool), {<<"complete">>})

\* the loop over the source list moves on; MODIS-Aqua runs it twice
NextFile ==
  IF idx < NFiles(script)
    THEN /\ idx' = idx + 1
         /\ pc' = (IF pc \in {"download", "get"} THEN "download"
                                                 ELSE "download2")
    ELSE /\ idx' = 1
         /\ pc' = (IF script = "MODIS" /\ pc \in {"download", "get"}
                     THEN "download2" ELSE AfterDownload(script))

\* the test of the download helper: return when the destination is a file
DoDownloadCheck ==
  /\ pc \in {"download", "download2"}
  /\ IF IsFile(files, idx)
       THEN NextFile
       ELSE /\ pc' = (IF pc = "download" THEN "get" ELSE "get2")
            /\ idx' = idx
  /\ UNCHANGED <<script, csv, cut, df, keys, frame, ds, out, files,
                 failed, hist, dic>>

\* the request and the write of the destination file
DoDownloadGet ==
  /\ pc \in {"get", "get2"}
  /\ \E o \in FetchOutcomes :
       /\ files' = [files EXCEPT ![idx] = Fetched(script, o)]
       /\ failed' = (failed \/ o # "ok")
       /\ IF Raises(o) THEN pc' = "aborted" /\ idx' = idx ELSE NextFile
       /\ \E r \in Remote(script) : \E c \in Received(script, r, o) :
            cut' = c.kind /\ csv' = c.rows
  /\ hist' = IF script = "OCIM"
               THEN [hist EXCEPT !.cmds = Append(@, "download")] ELSE hist
  /\ UNCHANGED <<script, df, keys, frame, ds, out, dic>>

\* the script is run again on the files the last run has left
DoRerun ==
  /\ pc \in {"done", "error", "raised", "aborted", "exit"}
  /\ pc' = "download"
  /\ idx' = 1
  /\ failed' = FALSE
  /\ hist' = StartHist(script, files)
  /\ df' = <<>> /\ keys' = <<>> /\ frame' = None /\ ds' = EmptyDs
  /\ out' = None
  /\ UNCHANGED <<script, csv, cut, files, dic>>

\* xr.open_dataset raises on a file that holds part of a netCDF file
CanOpen(fs) == Partial(fs) = {}

\* Gruber/convert.py:44-50
DoGruberOpen ==
  /\ script = "Gruber" /\ pc = "open"
  /\ IF CanOpen(files)
       THEN ds' = [dcant |-> None] /\ pc' = "to_netcdf"
       ELSE ds' = ds /\ pc' = "error"
  /\ UNCHANGED <<script, csv, df, keys, frame, out>>
  /\ UNCHANGED env

\* GLODAP2022/convert.py:46-49: pd.read_csv raises EmptyDataError on a file
\* without a byte
DoReadCsv ==
  /\ script = "GLODAP" /\ pc = "read_csv"
  /\ IF cut = "empty"
       THEN df' = df /\ pc' = "raised"
       ELSE df' = ReadCsv(csv) /\ pc' = "filter"
  /\ UNCHANGED <<script, csv, keys, frame, ds, out>>
  /\ UNCHANGED env

\* GLODAP2022/convert.py:50-67: df["depth"] and the selection of the
\* columns raise KeyError when the header lacks a column; the comparison
\* of the depth column raises TypeError when it holds a text
DoDepthFilter ==
  /\ script = "GLODAP" /\ pc = "filter"
  /\ IF cut \in {"header", "depth"}
       THEN df' = df /\ pc' = "raised"
       ELSE df' = DepthFilter(csv, df) /\ pc' = "groupby"
  /\ UNCHANGED <<script, csv, keys, frame, ds, out>>
  /\ UNCHANGED env

\* pd.cut raises TypeError on a latitude or longitude column that holds a
\* text; .drop(columns=[...]) raises KeyError when the columns of the
\* frame are of dtype object, as they are when the file has no data line
GroupByRaises(k) == k \in {"nodata", "key"}

\* GLODAP2022/convert.py:71-83
DoGroupByMean ==
  /\ script = "GLODAP" /\ pc = "groupby"
  /\ IF GroupByRaises(cut)
       THEN keys' = keys /\ frame' = frame /\ pc' = "raised"
       ELSE /\ keys' = GroupKeys(csv, df)
            /\ frame' = GroupByMeanOf(csv, df, Numeric(cut))
            /\ pc' = "mid"
  /\ UNCHANGED <<script, csv, df, ds, out>>
  /\ UNCHANGED env

\* GLODAP2022/convert.py:86-87
DoMidPoints ==
  /\ script = "GLODAP" /\ pc = "mid"
  /\ frame' = MidPoints(frame)
  /\ pc' = "to_xarray"
  /\ UNCHANGED <<script, csv, df, keys, ds, out>>
  /\ UNCHANGED env

\* GLODAP2022/convert.py:90-114: ds is assigned by to_xarray before
\* ds.rename raises
DoToXarray ==
  /\ script = "GLODAP" /\ pc = "to_xarray"
  /\ IF CanRename(Numeric(cut))
       THEN ds' = ToXarray(frame) /\ pc' = "time_bnds"
       ELSE ds' = SetIndexToXarray(frame) /\ pc' = "raised"
  /\ UNCHANGED <<script, csv, df, keys, frame, out>>
  /\ UNCHANGED env

\* how cftime.DatetimeNoLeap takes a month that is a float64, which it is
\* when the month column holds a NaN: the build of cftime converts it to
\* an integer or raises TypeError
MonthCasts(k) == IF k = "month" THEN {"int", "raise"} ELSE {"int"}

\* GLODAP2022/convert.py:115-126
DoGlodapTimeBnds ==
  /\ script = "GLODAP" /\ pc = "time_bnds"
  /\ \E cast \in MonthCasts(cut) :
       IF cast = "raise"
         THEN ds' = ds /\ pc' = "raised"
         ELSE ds' = GlodapTimeBnds(ds) /\ pc' = "time"
  /\ UNCHANGED <<script, csv, df, keys, frame, out>>
  /\ UNCHANGED env

\* GLODAP2022/convert.py:127
DoGlodapTime ==
  /\ script = "GLODAP" /\ pc = "time"
  /\ ds' = GlodapTime(ds)
  /\ pc' = "space_bnds"
  /\ UNCHANGED <<script, csv, df, keys, frame, out>>
  /\ UNCHANGED env

\* GLODAP2022/convert.py:128-148
DoGlodapSpaceBnds ==
  /\ script = "GLODAP" /\ pc = "space_bnds"
  /\ IF SpaceBndsFit(ds)
       THEN ds' = GlodapSpaceBnds(ds) /\ pc' = "to_netcdf"
       ELSE ds' = ds /\ pc' = "error"
  /\ UNCHANGED <<script, csv, df, keys, frame, out>>
  /\ UNCHANGED env

\* GLODAP2022/convert.py:149-164, Boyer/convert.py:81-87,
\* MODIS-Aqua/convert.py:119-126
DoToNetcdf ==
  /\ pc = "to_netcdf"
  /\ out' = ds
  /\ pc' = "done"
  /\ UNCHANGED <<script, csv, df, keys, frame, ds>>
  /\ UNCHANGED env

\* Boyer/convert.py:45-47: the source file holds twelve monthly steps
DoBoyerOpen ==
  /\ script = "Boyer" /\ pc = "open"
  /\ IF CanOpen(files)
       THEN /\ ds' = [EmptyDs EXCEPT !.time = [m \in 1..12 |-> m]]
            /\ pc' = "time_bnds"
       ELSE ds' = ds /\ pc' = "error"
  /\ UNCHANGED <<script, csv, df, keys, frame, out>>
  /\ UNCHANGED env

\* Boyer/convert.py:50-61
DoBoyerTimeBnds ==
  /\ script = "Boyer" /\ pc = "time_bnds"
  /\ ds' = [ds EXCEPT !.time_bnds = [t \in 1..12 |-> TimeBnds(t)]]
  /\ pc' = "time"
  /\ UNCHANGED <<script, csv, df, keys, frame, out>>
  /\ UNCHANGED env

\* Boyer/convert.py:62-80
DoBoyerTime ==
  /\ script = "Boyer" /\ pc = "time"
  /\ ds' = [ds EXCEPT !.time =
              [i \in 1..Len(ds.time_bnds) |-> BndsMean(ds.time_bnds[i])]]
  /\ pc' = "to_netcdf"
  /\ UNCHANGED <<script, csv, df, keys, frame, out>>
  /\ UNCHANGED env

\* the chlor_a field of a source file: an ocean pixel, which here holds the
\* month and day of the file name, and a land pixel
ChlorA(src) == <<V(src.start % 10000), NaN>>

\* xr.ones_like(da) * c
OnesLikeTimes(da, c) == [p \in DOMAIN da |-> V(c)]

\* list.insert(i, x), i counted from zero
InsertAt(s, i, x) == SubSeq(s, 1, i) \o <<x>> \o SubSeq(s, i + 1, Len(s))

\* MODIS-Aqua/convert.py:74
WithFiller(das) == InsertAt(das, 6, OnesLikeTimes(das[1], -9999))

\* xr.where(da != c, da, np.nan)
WhereNot(da, c) == [p \in DOMAIN da |-> IF da[p] # V(c) THEN da[p] ELSE NaN]

\* il.coarsen_dataset(ds): a function of the ilamb3 package.  The two pixels
\* are one block.  The script fixes neither how the valued pixels of a block
\* are combined nor where a block without a valued pixel is masked: a
\* coarse value is kept as the valued pixels it is made from, and a block
\* of a slice without a valued pixel is missing (mask "slice"), or missing
\* only if no slice has a valued pixel in the block and the combination of
\* no pixel otherwise (mask "cell")
CoarsenMasks == {"slice", "cell"}

Valued(da) == SelectSeq(da, LAMBDA v : v # NaN)

Coarsen(das, mask) ==
  LET any == \E u \in 1..Len(das) : Valued(das[u]) # <<>>
  IN  [t \in 1..Len(das) |->
         << IF Valued(das[t]) = <<>> /\ (mask = "slice" \/ ~any)
              THEN NaN ELSE <<Valued(das[t])>> >>]

\* MODIS-Aqua/convert.py:70-82: the slices of the dataset
ModisSlices(mask) ==
  LET das == WithFiller([i \in 1..Len(ModisSources) |->
                           ChlorA(ModisSources[i])])
  IN  Coarsen([t \in 1..Len(das) |-> WhereNot(das[t], -9999)], mask)

\* MODIS-Aqua/convert.py:70-86: twelve slices on the month axis, one depth
DoModisConcat ==
  /\ script = "MODIS" /\ pc = "open"
  /\ IF CanOpen(files)
       THEN /\ \E mask \in CoarsenMasks :
                 ds' = [EmptyDs EXCEPT
                          !.time = [m \in 1..12 |->
                                      DatetimeNoLeap(BaseYear, m, 1)],
                          !.depth = <<0>>,
                          !.data = ModisSlices(mask)]
            /\ pc' = "bnds"
       ELSE ds' = ds /\ pc' = "error"
  /\ UNCHANGED <<script, csv, df, keys, frame, out>>
  /\ UNCHANGED env

\* MODIS-Aqua/convert.py:89-117
DoModisBnds ==
  /\ script = "MODIS" /\ pc = "bnds"
  /\ ds' = [ds EXCEPT !.time_bnds = [t \in 1..12 |-> TimeBnds(t)],
                      !.depth_bnds = <<<<0, 10>>>>]
  /\ pc' = "to_netcdf"
  /\ UNCHANGED <<script, csv, df, keys, frame, out>>
  /\ UNCHANGED env

\* WOA2018/convert.py:64-80: the rows of climatology_bounds as written in
\* the script, the last one ending on 31 December
WoaClimatologyBounds ==
  [m \in 1..12 |->
     IF m < 12
       THEN <<DatetimeNoLeap(1995, m, 1), DatetimeNoLeap(2005, m + 1, 1)>>
       ELSE <<DatetimeNoLeap(1995, 12, 1), DatetimeNoLeap(2005, 12, 31)>>]

\* WOA2018/convert.py:55-60
DoWoaOpen ==
  /\ script = "WOA" /\ pc = "open"
  /\ IF CanOpen(files)
       THEN /\ ds' = [time |-> [m \in 1..12 |-> DatetimeNoLeap(2000, m, 15)],
                      climatology_bounds |-> None]
            /\ pc' = "climatology_bounds"
       ELSE ds' = ds /\ pc' = "error"
  /\ UNCHANGED <<script, csv, df, keys, frame, out>>
  /\ UNCHANGED env

\* WOA2018/convert.py:62-80
DoWoaClimatologyBounds ==
  /\ script = "WOA" /\ pc = "climatology_bounds"
  /\ ds' = [ds EXCEPT !.climatology_bounds = WoaClimatologyBounds]
  /\ pc' = "to_netcdf"
  /\ UNCHANGED <<script, csv, df, keys, frame, out>>
  /\ UNCHANGED env

\* OCIM/convert.py:51-54: os.system does not raise when unzip fails
DoOcimUnzip ==
  /\ script = "OCIM" /\ pc = "unzip"
  /\ IF NeedsUnzip(files)
       THEN /\ hist' = [hist EXCEPT !.cmds = Append(@, "unzip")]
            /\ files' = IF files[OcimZip] = "complete"
                          THEN [files EXCEPT ![OcimGz] = "complete"]
                          ELSE files
       ELSE UNCHANGED <<hist, files>>
  /\ pc' = "gunzip"
  /\ UNCHANGED <<script, csv, cut, df, keys, frame, ds, out, idx, failed,
                 dic>>

\* OCIM/convert.py:55-57: gunzip replaces the .gz by the extracted file
DoOcimGunzip ==
  /\ script = "OCIM" /\ pc = "gunzip"
  /\ IF NeedsGunzip(files)
       THEN /\ hist' = [hist EXCEPT !.cmds = Append(@, "gunzip")]
            /\ files' = IF files[OcimGz] = "complete"
                          THEN [files EXCEPT ![OcimGz] = "absent",
                                             ![OcimNc] = "complete"]
                          ELSE files
       ELSE UNCHANGED <<hist, files>>
  /\ pc' = "open"
  /\ UNCHANGED <<script, csv, cut, df, keys, frame, ds, out, idx, failed,
                 dic>>

\* OCIM/convert.py:58-92
DoOcimOpen ==
  /\ script = "OCIM" /\ pc = "open"
  /\ pc' = (IF files[OcimNc] = "complete" THEN "inventory" ELSE "error")
  /\ UNCHANGED <<script, csv, df, keys, frame, ds, out>>
  /\ UNCHANGED env

\* OCIM/convert.py:168-173 with 137-160
DoOcimInventory ==
  /\ script = "OCIM" /\ pc = "inventory"
  /\ ds' = [dcant |-> <<ColumnInventoryChange(dic)>>]
  /\ pc' = "to_netcdf"
  /\ UNCHANGED <<script, csv, df, keys, frame, out>>
  /\ UNCHANGED env

Next ==
  \/ DoOcimUnzip
  \/ DoOcimGunzip
  \/ DoOcimOpen
  \/ DoOcimInventory
  \/ DoWoaOpen
  \/ DoWoaClimatologyBounds
  \/ DoDownloadCheck
  \/ DoDownloadGet
  \/ DoRerun
  \/ DoGruberOpen
  \/ DoReadCsv
  \/ DoDepthFilter
  \/ DoGroupByMean
  \/ DoMidPoints
  \/ DoToXarray
  \/ DoGlodapTimeBnds
  \/ DoGlodapTime
  \/ DoGlodapSpaceBnds
  \/ DoToNetcdf
  \/ DoBoyerOpen
  \/ DoBoyerTimeBnds
  \/ DoBoyerTime
  \/ DoModisConcat
  \/ DoModisBnds

Spec == Init /\ [][Next]_vars
SpecFloat == InitFloat /\ [][Next]_vars

-----------------------------------------------------------------------------
(* Vocabulary of the properties                                            *)

Glodap == script = "GLODAP"

\* the groupby has run: keys and frame are assigned
Grouped ==
  Glodap /\ pc \in {"mid", "to_xarray", "time_bnds", "time", "space_bnds",
                    "to_netcdf", "done", "error"}

\* to_xarray has run: ds is assigned
HasDs ==
  Glodap /\ pc \in {"time_bnds", "time", "space_bnds", "to_netcdf", "done"}

Written == pc = "done"

\* the scripts that write a monthly climatology with time bounds
Climatology == script \in {"GLODAP", "Boyer", "MODIS"}

Edges(a) == CASE a = 2 -> lev [] a = 3 -> lat [] a = 4 -> lon

AxisValue(r, a) ==
  CASE a = 2 -> r.depth [] a = 3 -> r.latitude [] a = 4 -> r.longitude

NBins(a) == Len(Edges(a)) - 1

\* row k of the source is put in bin i of axis a by the groupby
Assigned(k, a, i) ==
  /\ k \in DOMAIN keys
  /\ keys[k][a] = <<Edges(a)[i], Edges(a)[i + 1]>>

\* row k of the source belongs to a group of the groupby
InGroup(k) == k \in DOMAIN keys /\ ValidKey(keys[k])

InDomain(r) ==
  \A a \in 2..4 :
    Edges(a)[1] <= AxisValue(r, a) /\ AxisValue(r, a) <= Edges(a)[NBins(a) + 1]

\* position in dataset d of the cell of group key g: the time step of the
\* month and, on each space axis, the label that lies inside the interval
CellPos(g, d) ==
  <<CHOOSE i \in 1..Len(d.time) : d.time[i].month = g[1],
    CHOOSE i \in 1..Len(d.depth) : g[2][1] < d.depth[i] /\ d.depth[i] < g[2][2],
    CHOOSE i \in 1..Len(d.lat) : g[3][1] < d.lat[i] /\ d.lat[i] < g[3][2],
    CHOOSE i \in 1..Len(d.lon) : g[4][1] < d.lon[i] /\ d.lon[i] < g[4][2]>>

\* the rows that are mapped to the cell of key g with a value of q
Contributors(g, q) ==
  {k \in DOMAIN keys : keys[k] = g /\ csv[k][q] # NaN}

RECURSIVE SumSmall(_, _)
SumSmall(S, q) ==
  IF S = {} THEN 0
  ELSE LET k == CHOOSE x \in S : TRUE
       IN  csv[k][q][2] + SumSmall(S \ {k}, q)

GroupKeySet == {keys[k] : k \in {j \in DOMAIN keys : ValidKey(keys[j])}}

-----------------------------------------------------------------------------
(* C1 *)

\* C1 as stated: on each of the depth, latitude and longitude axes a row is
\* assigned to bin i exactly when edge[i] <= v < edge[i+1], the final bin
\* being closed at the domain maximum.
C1_HalfOpenBins ==
  Grouped =>
    \A k \in 1..Len(csv) : \A a \in 2..4 : \A i \in 1..NBins(a) :
      LET v == AxisValue(csv[k], a)
          e == Edges(a)
      IN  Assigned(k, a, i) <=>
            \/ e[i] <= v /\ v < e[i + 1]
            \/ i = NBins(a) /\ v = e[i + 1]

-----------------------------------------------------------------------------
(* C2 *)

\* C2 as stated: a row whose depth is DEPTH_MAX, whose latitude is 90 or
\* whose longitude is 180, and which lies in the domain on the other axes,
\* is put in the last bin of that axis and counts in the mean of its cell;
\* depths 900 (value 20) and DEPTH_MAX (value 30) of one column give 25.
C2_DomainMaxInLastBin ==
  Written /\ Glodap =>
    \A k \in 1..Len(csv) : \A a \in 2..4 :
      (InDomain(csv[k]) /\ AxisValue(csv[k], a) = Edges(a)[NBins(a) + 1]) =>
        /\ Assigned(k, a, NBins(a))
        /\ InGroup(k)
        /\ \A q \in Quantities :
             csv[k][q] # NaN =>
               LET val == Value(out, CellPos(keys[k], out), RenameVar(q))
                   n   == Cardinality(Contributors(keys[k], q))
               IN  /\ val # NaN
                   /\ val[2] * n = SumSmall(Contributors(keys[k], q), q) * val[3]

-----------------------------------------------------------------------------
(* C3 *)

\* C3: in the written grid the value of every populated cell and quantity
\* is the arithmetic mean of the non-missing values of the rows mapped to
\* the cell, each row counted once however often its values repeat; it is
\* missing when no such row has a value.
C3_CellMean ==
  Written /\ Glodap =>
    \A g \in GroupKeySet : \A q \in Quantities :
      LET val == Value(out, CellPos(g, out), RenameVar(q))
          rows == Contributors(g, q)
      IN  IF rows = {}
            THEN val = NaN
            ELSE /\ val # NaN
                 /\ val[1] = 0
                 /\ val[2] * Cardinality(rows) = SumSmall(rows, q) * val[3]

\* a cell that holds the same value twice and another value once, and a
\* quantity that is missing in some of its rows
C3_Witness ==
  /\ Written /\ Glodap
  /\ \E i, j, k \in DOMAIN keys :
       /\ i # j /\ csv[i] = csv[j] /\ InGroup(i)
       /\ keys[k] = keys[i]
       /\ csv[i].temperature # NaN /\ csv[k].temperature # NaN
       /\ csv[k].temperature # csv[i].temperature
       /\ csv[i].salinity = NaN /\ csv[k].salinity # NaN

-----------------------------------------------------------------------------
(* C4 *)

\* cells examined besides the populated ones: the corners of the grid
ProbeCells(d) ==
  {<<t, z, y, x>> : t \in 1..Len(d.time), z \in {1, Len(d.depth)},
                    y \in {1, Len(d.lat)}, x \in {1, Len(d.lon)}}

\* C4: in the written grid a value is missing exactly when no row with a
\* non-missing value of the quantity is mapped to the cell.
C4_MissingIffNoValue ==
  Written /\ Glodap =>
    \A q \in Quantities :
      \A p \in DOMAIN out.data \cup ProbeCells(out)
               \cup {CellPos(g, out) : g \in GroupKeySet} :
        (Value(out, p, RenameVar(q)) # NaN) <=>
          \E g \in GroupKeySet :
            CellPos(g, out) = p /\ Contributors(g, q) # {}

\* a written grid with a cell whose rows hold no value at all, and a cell
\* that has a temperature and no salinity
C4_Witness ==
  /\ Written /\ Glodap
  /\ \E p \in DOMAIN out.data : \A q \in Quantities :
       Value(out, p, RenameVar(q)) = NaN
  /\ \E p \in DOMAIN out.data :
       Value(out, p, "thetao") # NaN /\ Value(out, p, "so") = NaN

-----------------------------------------------------------------------------
(* C5 *)

FullShape(d) ==
  /\ Len(d.depth) = Len(lev) - 1
  /\ Len(d.lat) = Len(lat) - 1
  /\ Len(d.lon) = Len(lon) - 1

\* C5: the dataset has one index per bin on the depth, latitude and
\* longitude axes whichever cells are populated, from to_xarray on and in
\* the written file, where each bounds variable has one row per index.
C5_FullCardinality ==
  /\ (HasDs /\ Len(ds.time) > 0) => FullShape(ds)
  /\ (Written /\ Glodap) =>
       /\ FullShape(out)
       /\ Len(out.depth_bnds) = Len(out.depth)
       /\ Len(out.lat_bnds) = Len(out.lat)
       /\ Len(out.lon_bnds) = Len(out.lon)

\* a grid is written for a table none of whose rows falls in a cell
C5_Witness ==
  /\ Written /\ Glodap
  /\ Len(csv) > 0
  /\ DOMAIN out.data = {}

-----------------------------------------------------------------------------
(* C6 *)

\* C6 as stated: the written time axis has twelve entries whichever months
\* have rows.
C6_TwelveMonths == Written /\ Climatology => Len(out.time) = 12

-----------------------------------------------------------------------------
(* C7 *)

\* the month of row i of the written time axis
MonthOfRow(i) == IF Glodap THEN out.time[i].month ELSE i

\* C7: in the written time bounds the lower bound of month m is day 1 of
\* month m of 2000, the upper bound is day 1 of month m+1 of 2000 for
\* m < 12 and January 1 of 2001 for December.
C7_MonthBounds ==
  Written /\ Climatology =>
    /\ Len(out.time_bnds) = Len(out.time)
    /\ ~Glodap => Len(out.time_bnds) = 12
    /\ \A i \in 1..Len(out.time_bnds) :
         LET m == MonthOfRow(i)
             b == out.time_bnds[i]
         IN  /\ b[1] = [year |-> 2000, month |-> m, day |-> 1, hour |-> 0]
             /\ m < 12 =>
                  b[2] = [year |-> 2000, month |-> m + 1, day |-> 1, hour |-> 0]
             /\ m = 12 =>
                  b[2] = [year |-> 2001, month |-> 1, day |-> 1, hour |-> 0]

\* a written GLODAP grid that holds December
C7_Witness ==
  /\ Written /\ Glodap
  /\ \E i \in 1..Len(out.time) :
       out.time[i].month = 12 /\ out.time_bnds[i][2].year = 2001

-----------------------------------------------------------------------------
(* C8 *)

MeanOfRow(label, row) == 2 * label = row[1] + row[2]

SpaceLabelsAreMeans(d) ==
  /\ \A i \in 1..Len(d.depth) : MeanOfRow(d.depth[i], d.depth_bnds[i])
  /\ \A i \in 1..Len(d.lat) : MeanOfRow(d.lat[i], d.lat_bnds[i])
  /\ \A i \in 1..Len(d.lon) : MeanOfRow(d.lon[i], d.lon_bnds[i])

TimeLabelIsMean(d, i) ==
  MeanOfRow(DateNum(d.time[i]),
            <<DateNum(d.time_bnds[i][1]), DateNum(d.time_bnds[i][2])>>)

\* C8 as stated: on every axis of a written grid that carries bounds, the
\* label at index i is the arithmetic mean of the two edges of row i.
C8_LabelIsBoundsMean ==
  Written /\ Climatology =>
    /\ \A i \in 1..Len(out.time) : TimeLabelIsMean(out, i)
    /\ out.depth_bnds # None =>
         \A i \in 1..Len(out.depth) :
           MeanOfRow(out.depth[i], out.depth_bnds[i])
    /\ out.lat_bnds # None =>
         \A i \in 1..Len(out.lat) : MeanOfRow(out.lat[i], out.lat_bnds[i])
    /\ out.lon_bnds # None =>
         \A i \in 1..Len(out.lon) : MeanOfRow(out.lon[i], out.lon_bnds[i])

\* C8 amended: the depth, lat and lon labels of the GLODAP grid and the
\* time labels of the Boyer grid are the means of their bounds rows; the
\* GLODAP time label is day 15 of the month, 14 days after the lower bound
\* and before the upper one; the MODIS-Aqua time and depth labels are the
\* lower bounds of their rows.
C8_LabelsAndBounds ==
  Written /\ Climatology =>
    /\ Glodap =>
         /\ SpaceLabelsAreMeans(out)
         /\ \A i \in 1..Len(out.time) :
              /\ out.time[i].day = 15
              /\ DateNum(out.time[i]) = DateNum(out.time_bnds[i][1]) + 14 * 24
              /\ DateNum(out.time[i]) < DateNum(out.time_bnds[i][2])
    /\ script = "Boyer" =>
         \A i \in 1..Len(out.time) : TimeLabelIsMean(out, i)
    /\ script = "MODIS" =>
         /\ \A i \in 1..Len(out.time) : out.time[i] = out.time_bnds[i][1]
         /\ out.depth[1] = out.depth_bnds[1][1]

\* a written GLODAP grid whose January label is not the mean of its bounds
\* row and whose first depth label is
C8_Witness ==
  /\ Written /\ Glodap
  /\ Len(out.time) > 0
  /\ out.time[1].month = 1
  /\ ~TimeLabelIsMean(out, 1)
  /\ MeanOfRow(out.depth[1], out.depth_bnds[1])

-----------------------------------------------------------------------------
(* C9 *)

Finished == Glodap /\ pc \in {"done", "error"}

\* position in dataset d of the cell with the labels m of a frame row
PosByLabel(d, m) ==
  <<IndexOf(d.time, DatetimeNoLeap(BaseYear, m[1], 15)),
    IndexOf(d.depth, m[2]), IndexOf(d.lat, m[3]), IndexOf(d.lon, m[4])>>

\* C9: a row whose depth, latitude or longitude lies outside the domain of
\* its axis belongs to no group: the means of the groups and the values of
\* the written cells are those of the table without such rows, and a run
\* fails only if it fails without them as well.
C9_OutOfDomainDropped ==
  Finished =>
    LET kept == SelectSeq(csv, InDomain)
        res  == GlodapResult(kept)
        fr   == MidPoints(GroupByMean(kept, DepthFilter(kept, ReadCsv(kept))))
    IN  /\ \A k \in 1..Len(csv) : ~InDomain(csv[k]) => ~InGroup(k)
        /\ frame.data = fr.data
        /\ pc = "error" => res.status # "done"
        /\ (pc = "done" /\ res.status = "done") =>
             \A m \in DOMAIN frame.data : \A q \in Quantities :
               Value(out, PosByLabel(out, m), RenameVar(q))
                 = Value(res.ds, PosByLabel(res.ds, m), RenameVar(q))

\* a written grid with a populated cell whose table holds a row beyond the
\* latitude range that passed the depth filter
C9_Witness ==
  /\ Written /\ Glodap
  /\ DOMAIN out.data # {}
  /\ \E k \in DOMAIN keys : csv[k].latitude > lat[Len(lat)] /\ ~InGroup(k)

-----------------------------------------------------------------------------
(* C10 *)

Perms(n) == {f \in [1..n -> 1..n] : \A i, j \in 1..n : f[i] = f[j] => i = j}

Permuted(c, f) == [i \in 1..Len(c) |-> c[f[i]]]

\* C10 as stated: for every permutation of the rows the run ends the same
\* way with the same dataset: shape, coordinates, bounds and cell values.
C10_OrderInvariant ==
  Finished =>
    \A f \in Perms(Len(csv)) :
      GlodapResult(Permuted(csv, f)) = [status |-> pc, ds |-> ds]

\* every float64 addition of the values of q in the cell of key g is exact
ExactSum(g, q) == \A k \in Contributors(g, q) : csv[k][q][1] = 0

\* C10 amended: for every permutation of the rows the run ends the same
\* way with the same shape, coordinates, bounds and set of missing cells;
\* a cell value is the same whenever the float64 additions of the values
\* of its rows are exact, and may differ otherwise.
C10_OrderInvariantWhenExact ==
  Finished =>
    \A f \in Perms(Len(csv)) :
      LET res == GlodapResult(Permuted(csv, f))
      IN  /\ res.status = pc
          /\ \A fld \in {"time", "depth", "lat", "lon", "time_bnds",
                         "depth_bnds", "lat_bnds", "lon_bnds"} :
               res.ds[fld] = ds[fld]
          /\ DOMAIN res.ds.data = DOMAIN ds.data
          /\ \A p \in DOMAIN ds.data : \A q \in Quantities :
               (res.ds.data[p][RenameVar(q)] = NaN)
                 <=> (ds.data[p][RenameVar(q)] = NaN)
          /\ \A g \in GroupKeySet : \A q \in Quantities :
               ExactSum(g, q) =>
                 Value(res.ds, CellPos(g, ds), RenameVar(q))
                   = Value(ds, CellPos(g, ds), RenameVar(q))

\* a written grid of a table with two months, in which one cell holds two
\* small salinities and a temperature of magnitude 2^60
C10_Witness ==
  /\ Written /\ Glodap
  /\ Len(out.time) = 2
  /\ \E g \in GroupKeySet :
       /\ Cardinality(Contributors(g, "salinity")) >= 2
       /\ ExactSum(g, "salinity")
       /\ ~ExactSum(g, "temperature")


-----------------------------------------------------------------------------
(* The download helpers                                                    *)

InDownload == pc \in {"download", "download2"}

InGet == pc \in {"get", "get2"}

\* C11: a download helper that finds its destination already a file issues
\* no request and leaves every file as it is; the second loop of MODIS-Aqua
\* over its source list, which follows a complete first loop, issues no
\* request and changes no file.
C11_DownloadIdempotent ==
  [][ /\ (InDownload /\ files[idx] # "absent") =>
           (files' = files /\ failed' = failed /\ ~InGet')
      /\ (pc = "download2") => (files' = files /\ ~InGet') ]_vars

\* the second loop of MODIS-Aqua has skipped every source but the last
C11_Witness ==
  /\ script = "MODIS" /\ pc = "download2" /\ idx = NFiles(script)
  /\ \A f \in DOMAIN files : files[f] = "complete"


\* C12: a run in which a fetch did not receive the complete content is
\* aborted: it never reaches the final to_netcdf step and writes no output.
C12_FailedFetchAborts == failed => pc \notin {"to_netcdf", "done"}

\* a GLODAP run whose fetch ended early has read a file that holds the
\* header and a part of the remote rows, and has reached the final step
C12_Witness ==
  /\ Glodap /\ failed /\ pc = "to_netcdf"
  /\ files[1] = "partial" /\ cut = "none"
  /\ 0 < Len(csv) /\ Len(csv) < MaxObs


-----------------------------------------------------------------------------
(* The bins of the GLODAP grid                                             *)

OutBnds(a) ==
  CASE a = 2 -> out.depth_bnds [] a = 3 -> out.lat_bnds [] a = 4 -> out.lon_bnds

\* the rows of a bounds variable that hold value v
BinsHolding(b, v) == {i \in 1..Len(b) : b[i][1] < v /\ v <= b[i][2]}

\* C14: with GRID_RES = 2 and DEPTH_MAX = 1000 the edge sequences lev, lat
\* and lon are strictly increasing; in each written bounds variable every
\* row has its lower edge below its upper edge and the upper edge of row i
\* is the lower edge of row i+1; every value of a source row lies in at most
\* one bin of its axis, and a row is put in at most one bin of each axis,
\* the one holding its value, hence in at most one cell.
C14_ContiguousBins ==
  Written /\ Glodap =>
    \A a \in 2..4 :
      LET b == OutBnds(a)
          e == Edges(a)
      IN  /\ \A i \in 1..NBins(a) : e[i] < e[i + 1]
          /\ Len(b) = NBins(a)
          /\ \A i \in 1..Len(b) : b[i][1] < b[i][2]
          /\ \A i \in 1..(Len(b) - 1) : b[i][2] = b[i + 1][1]
          /\ \A k \in 1..Len(csv) :
               LET holding  == BinsHolding(b, AxisValue(csv[k], a))
                   assigned == {i \in 1..NBins(a) : Assigned(k, a, i)}
               IN  /\ Cardinality(holding) <= 1
                   /\ Cardinality(assigned) <= 1
                   /\ assigned # {} => assigned = holding

\* a written run with a grouped row whose depth is the edge shared by the
\* first two depth bins
C14_Witness ==
  /\ Written /\ Glodap
  /\ \E k \in 1..Len(csv) :
       /\ InGroup(k)
       /\ csv[k].depth = out.depth_bnds[1][2]
       /\ csv[k].depth = out.depth_bnds[2][1]


-----------------------------------------------------------------------------
(* The climatology bounds of WOA2018                                       *)

\* C16: the 12 written rows of climatology_bounds are whole-month intervals:
\* row m starts on day 1 of month m of 1995 and ends on day 1 of the month
\* that follows m, in 2005 for January to November and on 1 January 2006 for
\* December.
C16_WholeMonthBounds ==
  Written /\ script = "WOA" =>
    /\ Len(out.climatology_bounds) = 12
    /\ \A m \in 1..12 :
         /\ out.climatology_bounds[m][1] = DatetimeNoLeap(1995, m, 1)
         /\ out.climatology_bounds[m][2] =
              DatetimeNoLeap(2005 + Bool(m = 12), IF m = 12 THEN 1 ELSE m + 1, 1)


-----------------------------------------------------------------------------
(* The column inventory change of OCIM                                     *)

\* the layers within [0, 3000] that hold a value in both years
Layers == {l \in SelDepth : dic[2007][l] # NaN /\ dic[1994][l] # NaN}

RECURSIVE LayerSum(_)
LayerSum(L) ==
  IF L = {} THEN 0
  ELSE LET l == CHOOSE x \in L : TRUE
       IN  (dic[2007][l][2] - dic[1994][l][2]) * 1025 * thick[l]
             + LayerSum(L \ {l})

\* C17: the written inventory change of a column is the sum over its
\* non-missing layers within [0, 3000] of (dic at 2007 - dic at 1994) * 1025
\* * 1e-6 * thickness; it is missing when the column has no such layer, and
\* every column with at least one such layer keeps its sum.
C17_ColumnKeepsSum ==
  Written /\ script = "OCIM" =>
    out.dcant[1] = (IF Layers = {} THEN NaN ELSE V(LayerSum(Layers)))


-----------------------------------------------------------------------------
(* The preparation of the OCIM source                                      *)

Ocim == script = "OCIM"

\* no fetch of the run has failed and no file holds part of its content
StepsSucceed == ~failed /\ Partial(files) = {}

Rank(c) == CASE c = "download" -> 1 [] c = "unzip" -> 2 [] c = "gunzip" -> 3

Ran(c) == \E i \in 1..Len(hist.cmds) : hist.cmds[i] = c

\* C19: in an OCIM run whose executed steps succeed, whatever files it
\* starts with: the commands run in the order download, unzip, gunzip, each
\* at most once; the extracted source exists when xr.open_dataset is reached
\* and is opened; unzip is not run when the .gz or the extracted source was
\* there, gunzip is not run when the extracted source was there, and an
\* extracted source that was there is left as it was.
C19_OcimPreparation ==
  Ocim /\ StepsSucceed =>
    /\ \A i, j \in 1..Len(hist.cmds) :
         i < j => Rank(hist.cmds[i]) < Rank(hist.cmds[j])
    /\ pc = "open" => files[OcimNc] = "complete"
    /\ pc # "error"
    /\ IsFile(hist.had, OcimZip) => ~Ran("download")
    /\ (IsFile(hist.had, OcimGz) \/ IsFile(hist.had, OcimNc)) => ~Ran("unzip")
    /\ IsFile(hist.had, OcimNc) =>
         (~Ran("gunzip") /\ files[OcimNc] = hist.had[OcimNc])

\* a run that started without any of the three files has reached
\* xr.open_dataset after the download, the unzip and the gunzip
C19_Witness ==
  /\ Ocim /\ StepsSucceed /\ pc = "open"
  /\ \A f \in DOMAIN hist.had : hist.had[f] = "absent"
  /\ hist.cmds = <<"download", "unzip", "gunzip">>

-----------------------------------------------------------------------------
(* Files left by earlier runs                                              *)

\* C18: over any sequence of runs, a destination file that a download helper
\* finds present, and so does not fetch, holds the complete remote content:
\* no interrupted or failed download leaves a partial file that a later run
\* accepts.
C18_SkippedFileComplete ==
  (InDownload /\ IsFile(files, idx)) => files[idx] = "complete"

====
